---------------------------- MODULE Spec2Model ----------------------------
(***************************************************************************)
(* Model of homework.py: a bot that polls the homework-status API and      *)
(* forwards status changes to a Telegram chat.                             *)
(*                                                                         *)
(* The program is one thread.  Its position is pc:                         *)
(*   "start"   before main() has run check_tokens                          *)
(*   "poll"    at the top of the while loop, about to call get_api_answer  *)
(*   "notify"  inside the for loop, about to handle homeworks[idx]         *)
(*   "except"  an exception reached the try statement of main              *)
(*   "sleep"   about to call time.sleep(RETRY_PERIOD)                      *)
(*   "done"    main() returned (or an exception left it)                   *)
(*                                                                         *)
(* The source's message texts are Russian; the module language has ASCII   *)
(* strings only, so every text is transliterated, and the backquotes       *)
(* around key names in three of the texts are left out.                    *)
(***************************************************************************)
EXTENDS Integers, Sequences, FiniteSets, TLC

VARIABLES
    tokens,         \* the three module-level credentials read from the environment
    pc,             \* position of main()
    timestamp,      \* main's local `timestamp` (the watermark)
    sent_messages,  \* main's local `sent_messages`
    response,       \* main's local `response` (the decoded payload of the last poll)
    idx,            \* position of the for loop in homeworks (1-based)
    error,          \* the exception caught by main's try statement
    trace,          \* observable events of the current cycle, its API request first
    at_poll,        \* timestamp and sent_messages as they were when the cycle's request was made
    attempts,       \* per rendered text: status delivery attempts in the run (counted to 2)
    delivered,      \* rendered texts whose delivery by bot.send_message succeeded
    call,           \* a call of parse_status or check_response on its own: argument and result
    server_date,    \* under the monotone server: the lowest current_date it may send next
    since_request,  \* whether an API request was made yet, and the sleeps made since the last one
    last_error      \* when cycles are compared: the error text of the last cycle and how many
                    \* cycles in a row ended with it (counted to MaxRepeats)

vars == <<tokens, pc, timestamp, sent_messages, response, idx, error, trace,
          at_poll, attempts, delivered, call, server_date, since_request, last_error>>

-----------------------------------------------------------------------------
(* Bounds of the model *)

\* longest homeworks list a response carries
MaxBatch == 2
\* the server's current_date values are 1..MaxDate
MaxDate == 2
MaxRepeats == 3

-----------------------------------------------------------------------------
(* Python values *)

None == [py |-> "None"]
PyStr(s) == [py |-> "str", v |-> s]
PyInt(n) == [py |-> "int", v |-> n]
PyList(s) == [py |-> "list", v |-> s]
PyDict(d) == [py |-> "dict", v |-> d]

\* bool(value)
Truthy(value) ==
    CASE value.py = "None" -> FALSE
      [] value.py = "str"  -> value.v # ""
      [] value.py = "int"  -> value.v # 0
      [] value.py = "list" -> value.v # <<>>
      [] value.py = "dict" -> DOMAIN value.v # {}

\* an exception object; str() of a KeyError is the repr of its argument
Exc(type, msg) == [type |-> type, msg |-> msg]
StrExc(e) == IF e.type = "KeyError" THEN "'" \o e.msg \o "'" ELSE e.msg
NoError == [type |-> "none", msg |-> ""]

-----------------------------------------------------------------------------
(* Module constants *)

RETRY_PERIOD == 600
HTTP_OK == 200

HOMEWORK_VERDICTS ==
    [approved  |-> "Rabota proverena: revyueru vsyo ponravilos. Ura!",
     reviewing |-> "Rabota vzyata na proverku revyuerom.",
     rejected  |-> "Rabota proverena: u revyuera est zamechaniya."]

TokenNames == {"PRACTICUM_TOKEN", "TELEGRAM_TOKEN", "TELEGRAM_CHAT_ID"}


\* exceptions.py is not part of the sources: APIError and RequestError are
\* taken to be direct subclasses of Exception
APIErrorBases == {"APIError", "Exception"}
RequestErrorBases == {"RequestError", "Exception"}

\* the classes an exception of class `type` is an instance of
Bases(type) ==
    CASE type = "APIError" -> APIErrorBases
      [] type = "RequestError" -> RequestErrorBases
      [] type = "ConnectionError" -> {"ConnectionError", "RequestException", "Exception"}
      [] type = "Timeout" -> {"Timeout", "RequestException", "Exception"}
      \* requests.exceptions.JSONDecodeError (requests 2.27 and later)
      [] type = "requests.JSONDecodeError" ->
            {"requests.JSONDecodeError", "RequestException", "ValueError", "Exception"}
      \* json.JSONDecodeError (earlier versions of requests)
      [] type = "json.JSONDecodeError" -> {"json.JSONDecodeError", "ValueError", "Exception"}
      [] OTHER -> {type, "Exception"}

Ok(v) == [ok |-> TRUE, v |-> v]
Raise(e) == [ok |-> FALSE, exc |-> e]

-----------------------------------------------------------------------------
(* check_tokens *)

\* a check that tests only for a missing variable, not for an empty one
check_tokens_is_not_none(tok) ==
    LET missing_tokens == {token \in DOMAIN tok : tok[token] = None}
    IN  missing_tokens = {}

check_tokens(tok) ==
    LET missing_tokens == {token \in DOMAIN tok : ~Truthy(tok[token])}
    IN  missing_tokens = {}

-----------------------------------------------------------------------------
(* send_message: whether a failure of bot.send_message (delivered = FALSE) *)
(* leaves send_message as an exception.  The try/except Exception around   *)
(* the call catches it.                                                     *)

\* a send_message without the try/except: the failure reaches the caller
send_message_propagates(ok) == ~ok

send_message_raises(ok) == FALSE

-----------------------------------------------------------------------------
(* get_api_answer.  `http` is what requests.get and response.json() do:    *)
(*   [kind |-> "raise", exc |-> e]                 requests.get raises e   *)
(*   [kind |-> "response", status_code |-> c, json |-> Ok(v) or Raise(e)]  *)

\* the except clauses of get_api_answer, in order, applied to an exception
\* raised inside its try block
get_api_answer_except(e) ==
    IF "RequestException" \in Bases(e.type)
    THEN Raise(Exc("RequestError", "Oshibka pri zaprose k API: " \o StrExc(e)))
    ELSE IF "ValueError" \in Bases(e.type)
    THEN Raise(Exc("APIError", "Oshibka pri dekodirovanii JSON."))
    ELSE Raise(e)

\* a get_api_answer without the status check of lines 74-75
get_api_answer_any_status(http) ==
    IF http.kind = "raise"
    THEN get_api_answer_except(http.exc)
    ELSE IF http.json.ok
    THEN Ok(http.json.v)
    ELSE get_api_answer_except(http.json.exc)

get_api_answer(http) ==
    IF http.kind = "raise"
    THEN get_api_answer_except(http.exc)
    ELSE IF http.status_code # HTTP_OK
    THEN get_api_answer_except(
            Exc("APIError", "Oshibka: API vernul kod " \o ToString(http.status_code)))
    ELSE IF http.json.ok
    THEN Ok(http.json.v)
    ELSE get_api_answer_except(http.json.exc)

-----------------------------------------------------------------------------
(* check_response *)

\* a check without the isinstance(response['homeworks'], list) test
check_response_any_homeworks(resp) ==
    IF resp.py # "dict"
    THEN Raise(Exc("TypeError", "Otvet API ne yavlyaetsya slovarem."))
    ELSE IF "homeworks" \notin DOMAIN resp.v \/ "current_date" \notin DOMAIN resp.v
    THEN Raise(Exc("KeyError", "Otsutstvuyut ozhidaemye klyuchi v otvete API."))
    ELSE Ok(resp.v.homeworks)

\* a check that does not ask for the current_date key
check_response_no_date(resp) ==
    IF resp.py # "dict"
    THEN Raise(Exc("TypeError", "Otvet API ne yavlyaetsya slovarem."))
    ELSE IF "homeworks" \notin DOMAIN resp.v
    THEN Raise(Exc("KeyError", "Otsutstvuyut ozhidaemye klyuchi v otvete API."))
    ELSE IF resp.v.homeworks.py # "list"
    THEN Raise(Exc("TypeError", "Klyuch homeworks dolzhen soderzhat spisok."))
    ELSE Ok(resp.v.homeworks)

check_response(resp) ==
    IF resp.py # "dict"
    THEN Raise(Exc("TypeError", "Otvet API ne yavlyaetsya slovarem."))
    ELSE IF "homeworks" \notin DOMAIN resp.v \/ "current_date" \notin DOMAIN resp.v
    THEN Raise(Exc("KeyError", "Otsutstvuyut ozhidaemye klyuchi v otvete API."))
    ELSE IF resp.v.homeworks.py # "list"
    THEN Raise(Exc("TypeError", "Klyuch homeworks dolzhen soderzhat spisok."))
    ELSE Ok(resp.v.homeworks)

-----------------------------------------------------------------------------
(* parse_status.  A homework is a dict: a function from its keys. *)

RenderedMessage(homework_name, verdict) ==
    "Izmenilsya status proverki raboty \"" \o homework_name \o "\". " \o verdict

\* a parse_status that looks at the status before the name
parse_status_status_first(homework) ==
    LET status == IF "status" \in DOMAIN homework THEN PyStr(homework.status) ELSE None
    IN  IF ~(status.py = "str" /\ status.v \in DOMAIN HOMEWORK_VERDICTS)
        THEN Raise(Exc("ValueError", "Neozhidannyy status: "
                   \o (IF status.py = "str" THEN status.v ELSE "None")))
        ELSE IF "homework_name" \notin DOMAIN homework
        THEN Raise(Exc("KeyError", "Otsutstvuet klyuch homework_name v otvete API."))
        ELSE Ok(RenderedMessage(homework.homework_name, HOMEWORK_VERDICTS[status.v]))

parse_status(homework) ==
    IF "homework_name" \notin DOMAIN homework
    THEN Raise(Exc("KeyError", "Otsutstvuet klyuch homework_name v otvete API."))
    ELSE LET homework_name == homework.homework_name
             \* homework.get(status)
             status == IF "status" \in DOMAIN homework
                       THEN PyStr(homework.status) ELSE None
         IN  IF ~(status.py = "str" /\ status.v \in DOMAIN HOMEWORK_VERDICTS)
             THEN Raise(Exc("ValueError", "Neozhidannyy status: "
                        \o (IF status.py = "str" THEN status.v ELSE "None")))
             ELSE Ok(RenderedMessage(homework_name, HOMEWORK_VERDICTS[status.v]))

-----------------------------------------------------------------------------
(* main: the texts of the two except clauses *)

ApiErrorMessage(e) == "Oshibka pri poluchenii dannykh iz API: " \o StrExc(e)
ProgramFailureMessage(e) == "Sboy v rabote programmy: " \o StrExc(e)

\* an except clause that matches nothing
IsApiOrRequestErrorNever(e) == FALSE

\* which except clause of main catches e: (APIError, RequestError) or Exception
IsApiOrRequestError(e) ==
    "APIError" \in Bases(e.type) \/ "RequestError" \in Bases(e.type)

\* the variant without deduplication
ShouldSendAlways(sent, message) == TRUE

\* line 139: the deduplication test
ShouldSend(sent, message) == message \notin sent

\* the add is forgotten
MarkSentForgotten(sent, message, ok) == sent

\* line 141: sent_messages.add(message), whatever send_message did
MarkSent(sent, message, ok) == sent \cup {message}

-----------------------------------------------------------------------------
(* The environment: credentials, the clock, the API server, Telegram *)

TokenValues == {None, PyStr(""), PyStr("secret")}

\* int(time.time()) at line 125
StartTimes == {0, 2}
ServerDates == 1..MaxDate

\* homework records the server sends
Homeworks ==
    {[homework_name |-> "hw1", status |-> "approved"],
     [homework_name |-> "hw2", status |-> "rejected"],
     [homework_name |-> "hw1", status |-> "unknown"],
     [homework_name |-> "hw1"],
     [status |-> "approved"]}

HomeworkLists == UNION {[1..n -> Homeworks] : n \in 0..MaxBatch}

\* decoded JSON bodies
WellFormedPayloads ==
    {PyDict([homeworks |-> PyList(l), current_date |-> d]) :
        l \in HomeworkLists, d \in ServerDates}

MalformedPayloads ==
    {PyList(<<>>), PyInt(1), PyDict(<<>>),
     PyDict([homeworks |-> PyList(<<>>)]),
     PyDict([current_date |-> 1]),
     PyDict([homeworks |-> None, current_date |-> 1]),
     PyDict([homeworks |-> PyDict(<<>>), current_date |-> 1])}

Payloads == {None} \cup MalformedPayloads \cup WellFormedPayloads

HttpOutcomes ==
    {[kind |-> "raise", exc |-> Exc("ConnectionError", "connection refused")]}
    \* any other status: the body, decodable or not, is there but never read
    \cup {[kind |-> "response", status_code |-> c, json |-> b] :
            c \in {201, 404},
            b \in {Ok(PyDict([homeworks |-> PyList(<<>>), current_date |-> 1])),
                   Raise(Exc("json.JSONDecodeError", "Expecting value"))}}
    \cup {[kind |-> "response", status_code |-> HTTP_OK, json |-> Raise(Exc(t, "Expecting value"))] :
            t \in {"requests.JSONDecodeError", "json.JSONDecodeError"}}
    \cup {[kind |-> "response", status_code |-> HTTP_OK, json |-> Ok(v)] : v \in Payloads}

\* every text parse_status can return for the records above
StatusTexts == {parse_status(h).v : h \in {x \in Homeworks : parse_status(x).ok}}

-----------------------------------------------------------------------------
(* Observable events *)

\* the request of lines 71-73 with what came back and what get_api_answer made of it
Request(from_date, http, result) ==
    [ev |-> "request", from_date |-> from_date, http |-> http, result |-> result]
NoSnapshot == [timestamp |-> 0, sent_messages |-> {}]
Send(kind, text, ok) == [ev |-> "send", kind |-> kind, text |-> text, ok |-> ok]

\* one more attempt for text m, counted up to 2
CountAttempt(a, m) == [a EXCEPT ![m] = IF @ < 2 THEN @ + 1 ELSE @]

\* no function is called on its own while main runs
NoCall == [fn |-> "none", arg |-> None, done |-> FALSE, ret |-> None]

\* before the first API request: none made, no sleep
NoRequestYet == [made |-> FALSE, sleeps |-> <<>>]

\* no cycle has ended with an error notification
NoLastError == [text |-> "", count |-> 0]

-----------------------------------------------------------------------------
(* main *)

Init ==
    /\ tokens \in [TokenNames -> TokenValues]
    /\ pc = "start"
    /\ timestamp = 0
    /\ sent_messages = {}
    /\ response = None
    /\ idx = 0
    /\ error = NoError
    /\ trace = <<>>
    /\ at_poll = NoSnapshot
    /\ attempts = [m \in StatusTexts |-> 0]
    /\ delivered = {}
    /\ call = NoCall
    /\ server_date = 0
    /\ since_request = NoRequestYet
    /\ last_error = NoLastError

\* lines 121-126
main_start ==
    /\ pc = "start"
    /\ IF ~check_tokens(tokens)
       THEN /\ pc' = "done"
            /\ UNCHANGED <<timestamp, sent_messages>>
       ELSE /\ \E now \in StartTimes : timestamp' = now
            /\ sent_messages' = {}
            /\ pc' = "poll"
    /\ UNCHANGED <<since_request, last_error, call, tokens, response, idx, error, trace,
                   at_poll, attempts, delivered>>

Start == main_start /\ UNCHANGED server_date

\* main's local `homeworks`: what check_response returned for `response`
homeworks == check_response(response).v.v

\* the watermark is left as it was
AdvanceWatermarkKeep(resp) == timestamp

\* line 147 moved under `if homeworks:`
AdvanceWatermarkIfAny(resp) ==
    IF resp.v.homeworks.v = <<>> THEN timestamp ELSE resp.v.current_date

\* the watermark is set back to the beginning
AdvanceWatermarkFromZero(resp) == 0

\* line 147
AdvanceWatermark(resp) == resp.v.current_date

\* lines 130-136 and, for an empty list, 144-148, when the HTTP exchange is http
PollOutcome(http) ==
    LET answer == get_api_answer(http)
        checked == check_response(answer.v)
    IN  /\ trace' = <<Request(timestamp, http, answer)>>
        /\ at_poll' = [timestamp |-> timestamp, sent_messages |-> sent_messages]
        /\ IF ~answer.ok
           THEN /\ error' = answer.exc
                /\ pc' = "except"
                /\ idx' = 0
                /\ UNCHANGED <<response, timestamp>>
           ELSE /\ response' = answer.v
                /\ IF answer.v = None
                   THEN /\ pc' = "sleep"
                        /\ error' = NoError
                        /\ idx' = 0
                        /\ UNCHANGED timestamp
                   ELSE IF ~checked.ok
                   THEN /\ error' = checked.exc
                        /\ pc' = "except"
                        /\ idx' = 0
                        /\ UNCHANGED timestamp
                   ELSE IF Truthy(checked.v)
                   THEN /\ pc' = "notify"
                        /\ idx' = 1
                        /\ error' = NoError
                        /\ UNCHANGED timestamp
                   ELSE /\ timestamp' = AdvanceWatermark(answer.v)
                        /\ pc' = "sleep"
                        /\ error' = NoError
                        /\ idx' = 0
        /\ since_request' = [made |-> TRUE, sleeps |-> <<>>]
        /\ UNCHANGED <<last_error, call, tokens, sent_messages, attempts, delivered>>

Poll ==
    /\ pc = "poll"
    /\ \E http \in HttpOutcomes : PollOutcome(http)
    /\ UNCHANGED server_date

\* a for loop that logs a record it cannot render and goes on to the next
ProcessHomeworkSkipBad ==
    /\ pc = "notify"
    /\ LET parsed == parse_status(homeworks[idx])
           message == parsed.v
           last == idx = Len(homeworks)
       IN  IF ~parsed.ok \/ ~ShouldSend(sent_messages, message)
           THEN /\ pc' = IF last THEN "sleep" ELSE "notify"
                /\ idx' = IF last THEN idx ELSE idx + 1
                /\ timestamp' = IF last THEN AdvanceWatermark(response) ELSE timestamp
                /\ UNCHANGED <<sent_messages, error, trace, attempts, delivered>>
           ELSE \E ok \in BOOLEAN :
                /\ trace' = Append(trace, Send("status", message, ok))
                /\ attempts' = CountAttempt(attempts, message)
                /\ delivered' = IF ok THEN delivered \cup {message} ELSE delivered
                /\ sent_messages' = MarkSent(sent_messages, message, ok)
                /\ pc' = IF last THEN "sleep" ELSE "notify"
                /\ idx' = IF last THEN idx ELSE idx + 1
                /\ timestamp' = IF last THEN AdvanceWatermark(response) ELSE timestamp
                /\ error' = error
    /\ UNCHANGED <<since_request, last_error, call, server_date, tokens, response, at_poll>>

\* lines 137-143 for homeworks[idx] and, after the last record, 147
ProcessHomework ==
    /\ pc = "notify"
    /\ LET parsed == parse_status(homeworks[idx])
           message == parsed.v
           last == idx = Len(homeworks)
       IN  IF ~parsed.ok
           THEN /\ error' = parsed.exc
                /\ pc' = "except"
                /\ UNCHANGED <<timestamp, sent_messages, idx, trace, attempts, delivered>>
           ELSE IF ~ShouldSend(sent_messages, message)
           THEN /\ pc' = IF last THEN "sleep" ELSE "notify"
                /\ idx' = IF last THEN idx ELSE idx + 1
                /\ timestamp' = IF last THEN AdvanceWatermark(response) ELSE timestamp
                /\ UNCHANGED <<sent_messages, error, trace, attempts, delivered>>
           ELSE \E ok \in BOOLEAN :
                /\ trace' = Append(trace, Send("status", message, ok))
                /\ attempts' = CountAttempt(attempts, message)
                /\ delivered' = IF ok THEN delivered \cup {message} ELSE delivered
                /\ IF send_message_raises(ok)
                   THEN /\ error' = Exc("Exception", "send_message failed")
                        /\ pc' = "except"
                        /\ UNCHANGED <<timestamp, sent_messages, idx>>
                   ELSE /\ sent_messages' = MarkSent(sent_messages, message, ok)
                        /\ pc' = IF last THEN "sleep" ELSE "notify"
                        /\ idx' = IF last THEN idx ELSE idx + 1
                        /\ timestamp' = IF last THEN AdvanceWatermark(response) ELSE timestamp
                        /\ error' = error
    /\ UNCHANGED <<since_request, last_error, call, server_date, tokens, response, at_poll>>

\* except clauses that put their message through the test and the set of lines 139-141
NotifyErrorDeduplicated(message) ==
    IF ShouldSend(sent_messages, message)
    THEN \E ok \in BOOLEAN :
            /\ trace' = Append(trace, Send("error", message, ok))
            /\ sent_messages' = MarkSent(sent_messages, message, ok)
            /\ pc' = "sleep"
            /\ UNCHANGED <<since_request, last_error, call, server_date, tokens, timestamp,
                           response, idx, error, at_poll, attempts, delivered>>
    ELSE /\ pc' = "sleep"
         /\ UNCHANGED <<since_request, last_error, call, server_date, tokens, timestamp,
                        sent_messages, response, idx, error, trace, at_poll, attempts, delivered>>

\* what both except clauses of main do with their message: send_message, then sleep next
NotifyError(message) ==
    \E ok \in BOOLEAN :
        /\ trace' = Append(trace, Send("error", message, ok))
        /\ pc' = IF send_message_raises(ok) THEN "done" ELSE "sleep"
        /\ UNCHANGED <<since_request, last_error, call, server_date, tokens, timestamp, sent_messages, response, idx, error,
                       at_poll, attempts, delivered>>

\* lines 150-153
ExceptApiError ==
    /\ pc = "except"
    /\ IsApiOrRequestError(error)
    /\ NotifyError(ApiErrorMessage(error))

\* a handler that notifies and then lets the exception go on
ExceptExceptionReraise ==
    /\ pc = "except"
    /\ ~IsApiOrRequestError(error)
    /\ \E ok \in BOOLEAN :
        /\ trace' = Append(trace, Send("error", ProgramFailureMessage(error), ok))
        /\ pc' = "done"
        /\ UNCHANGED <<since_request, last_error, call, server_date, tokens, timestamp, sent_messages, response, idx, error,
                       at_poll, attempts, delivered>>

\* lines 155-158
ExceptException ==
    /\ pc = "except"
    /\ ~IsApiOrRequestError(error)
    /\ NotifyError(ProgramFailureMessage(error))

\* an iteration that ends without the call of time.sleep
SleepNoWait ==
    /\ pc = "sleep"
    /\ pc' = "poll"
    /\ trace' = <<>>
    /\ response' = None
    /\ idx' = 0
    /\ error' = NoError
    /\ at_poll' = NoSnapshot
    /\ UNCHANGED <<since_request, last_error, call, server_date, tokens, timestamp,
                   sent_messages, attempts, delivered>>

\* lines 132, 148, 154, 159: time.sleep(RETRY_PERIOD), then the next iteration.
\* The locals of the finished iteration (response, the loop variable, the
\* exception bound by `as error`) are not read again before they are
\* reassigned, and the events of the finished cycle end here.
main_sleep ==
    /\ pc = "sleep"
    /\ pc' = "poll"
    /\ trace' = <<>>
    /\ response' = None
    /\ idx' = 0
    /\ error' = NoError
    /\ at_poll' = NoSnapshot
    /\ since_request' = [since_request EXCEPT !.sleeps = Append(@, RETRY_PERIOD)]
    /\ UNCHANGED <<call, server_date, tokens, timestamp, sent_messages, attempts, delivered>>

Sleep == main_sleep /\ UNCHANGED last_error

Next ==
    \/ Start
    \/ Poll
    \/ ProcessHomework
    \/ ExceptApiError
    \/ ExceptException
    \/ Sleep

Spec == Init /\ [][Next]_vars

\* the thread keeps running: every blocking call (the HTTP request, the
\* Telegram call, time.sleep) returns or raises
FairSpec == Spec /\ WF_vars(Next)

-----------------------------------------------------------------------------
(* main against a server whose current_date values never go down and are   *)
(* never below the time the loop started                                    *)

\* the current_date of the body of an exchange, if it has one
HasDate(http) ==
    /\ http.kind = "response"
    /\ http.json.ok
    /\ http.json.v.py = "dict"
    /\ "current_date" \in DOMAIN http.json.v.v
DateOf(http) == http.json.v.v.current_date

MonotoneStart == main_start /\ server_date' = timestamp'

MonotonePoll ==
    /\ pc = "poll"
    /\ \E http \in HttpOutcomes :
        /\ HasDate(http) => DateOf(http) >= server_date
        /\ PollOutcome(http)
        /\ server_date' = IF HasDate(http) THEN DateOf(http) ELSE server_date

MonotoneNext ==
    \/ MonotoneStart
    \/ MonotonePoll
    \/ ProcessHomework
    \/ ExceptApiError
    \/ ExceptException
    \/ Sleep

MonotoneSpec == Init /\ [][MonotoneNext]_vars

-----------------------------------------------------------------------------
(* main with its cycles compared: last_error remembers the error text of   *)
(* the last cycle and how many cycles in a row ended with it.  The server   *)
(* answers with batches of at most one record.                              *)

ShortOutcomes ==
    {http \in HttpOutcomes :
        (/\ http.kind = "response"
         /\ http.json.ok
         /\ http.json.v.py = "dict"
         /\ "homeworks" \in DOMAIN http.json.v.v
         /\ http.json.v.v.homeworks.py = "list")
            => Len(http.json.v.v.homeworks.v) <= 1}

RepeatPoll ==
    /\ pc = "poll"
    /\ \E http \in ShortOutcomes : PollOutcome(http)
    /\ UNCHANGED server_date

\* the error notification of the cycle that ends, set against the last one
ErrorOfCycle(t, last) ==
    LET errors == SelectSeq(t, LAMBDA e : e.ev = "send" /\ e.kind = "error")
    IN  IF errors = <<>> THEN NoLastError
        ELSE IF errors[1].text = last.text
        THEN [last EXCEPT !.count = IF @ < MaxRepeats THEN @ + 1 ELSE @]
        ELSE [text |-> errors[1].text, count |-> 1]

RepeatSleep == main_sleep /\ last_error' = ErrorOfCycle(trace, last_error)

RepeatNext ==
    \/ Start
    \/ RepeatPoll
    \/ ProcessHomework
    \/ ExceptApiError
    \/ ExceptException
    \/ RepeatSleep

RepeatSpec == Init /\ [][RepeatNext]_vars

-----------------------------------------------------------------------------
(* parse_status and check_response called on their own, on one argument *)

\* names and status values of the records given to parse_status
RecordNames == {"hw1", "hw2", ""}
RecordStatuses == {"approved", "reviewing", "rejected", "unknown", "Approved", ""}

\* records with or without a name, with or without a status, and with or
\* without a further key
Records ==
    LET Keys == SUBSET {"homework_name", "status", "id"}
    IN  UNION {{[k \in K |-> CASE k = "homework_name" -> n
                                [] k = "status" -> st
                                [] k = "id" -> "1"] :
                    n \in RecordNames, st \in RecordStatuses} : K \in Keys}

UnitCalls ==
    {[fn |-> "parse_status", arg |-> h, done |-> FALSE, ret |-> None] : h \in Records}
    \cup {[fn |-> "check_response", arg |-> p, done |-> FALSE, ret |-> None] : p \in Payloads}

UnitInit ==
    /\ call \in UnitCalls
    /\ tokens = [t \in TokenNames |-> None]
    /\ pc = "done"
    /\ timestamp = 0
    /\ sent_messages = {}
    /\ response = None
    /\ idx = 0
    /\ error = NoError
    /\ trace = <<>>
    /\ at_poll = NoSnapshot
    /\ attempts = [m \in StatusTexts |-> 0]
    /\ delivered = {}
    /\ server_date = 0
    /\ since_request = NoRequestYet
    /\ last_error = NoLastError

CallParseStatus ==
    /\ call.fn = "parse_status"
    /\ ~call.done
    /\ call' = [call EXCEPT !.done = TRUE, !.ret = parse_status(call.arg)]
    /\ UNCHANGED <<tokens, pc, timestamp, sent_messages, response, idx, error, trace,
                   at_poll, attempts, delivered, server_date, since_request, last_error>>

CallCheckResponse ==
    /\ call.fn = "check_response"
    /\ ~call.done
    /\ call' = [call EXCEPT !.done = TRUE, !.ret = check_response(call.arg)]
    /\ UNCHANGED <<tokens, pc, timestamp, sent_messages, response, idx, error, trace,
                   at_poll, attempts, delivered, server_date, since_request, last_error>>

UnitNext ==
    \/ CallParseStatus
    \/ CallCheckResponse

UnitSpec == UnitInit /\ [][UnitNext]_vars

-----------------------------------------------------------------------------
(* Reading the events of the current cycle *)

LoopStarted == pc \notin {"start", "done"}

\* the sends of one kind ("status" or "error") in the current cycle, in order
Sends(kind) == SelectSeq(trace, LAMBDA e : e.ev = "send" /\ e.kind = kind)

\* the cycle's work is over: the next step is the sleep
CycleOver == pc = "sleep"

\* the payload get_api_answer returned in this cycle, if it returned one
GotPayload == trace # <<>> /\ trace[1].result.ok
Payload == trace[1].result.v

-----------------------------------------------------------------------------
(* C1: with a credential that is None or empty, main() returns before the  *)
(* loop: no API request, no notification attempt, no sleep is ever made.    *)
(* The loop runs only with three non-empty credentials.                     *)

AbsentOrEmpty(value) == value = None \/ value = PyStr("")

C1_LoopNeedsAllTokens ==
    /\ (\E t \in TokenNames : AbsentOrEmpty(tokens[t])) =>
            /\ pc \in {"start", "done"}
            /\ trace = <<>>
            /\ \A m \in StatusTexts : attempts[m] = 0
            /\ delivered = {}
    /\ LoopStarted => \A t \in TokenNames : ~AbsentOrEmpty(tokens[t])

\* main has returned because the chat id is the empty string
C1_Witness ==
    /\ pc = "done"
    /\ tokens["TELEGRAM_CHAT_ID"] = PyStr("")
    /\ tokens["PRACTICUM_TOKEN"] = PyStr("secret")
    /\ tokens["TELEGRAM_TOKEN"] = PyStr("secret")

-----------------------------------------------------------------------------
(* C2: in the whole run at most one delivery attempt is made for a         *)
(* rendered text, and a text that was attempted is in sent_messages from    *)
(* then on, so a later record rendering to it is skipped.                   *)

C2_AtMostOneAttempt ==
    \A m \in StatusTexts :
        /\ attempts[m] <= 1
        /\ attempts[m] >= 1 => m \in sent_messages

\* a batch of two records that render went by without a single send: both
\* texts had been attempted before
C2_Witness ==
    /\ CycleOver
    /\ error = NoError
    /\ GotPayload /\ Payload # None
    /\ Len(homeworks) = 2
    /\ Sends("status") = <<>>
    /\ \A i \in 1..2 : attempts[parse_status(homeworks[i]).v] = 1

-----------------------------------------------------------------------------
(* C3: a poll whose HTTP call raises a request exception leaves timestamp  *)
(* and sent_messages as they were, makes exactly one error notification     *)
(* attempt, with the text for API errors, and is followed by one sleep      *)
(* into the next poll, which uses the from_date of the failed one.          *)

TransportFailure == trace # <<>> /\ trace[1].http.kind = "raise"

C3_During ==
    TransportFailure =>
        /\ timestamp = at_poll.timestamp
        /\ sent_messages = at_poll.sent_messages
        /\ Sends("status") = <<>>
        /\ Len(Sends("error")) = IF CycleOver THEN 1 ELSE 0
        /\ CycleOver =>
              Sends("error")[1].text =
                  "Oshibka pri poluchenii dannykh iz API: "
                  \o "Oshibka pri zaprose k API: " \o trace[1].http.exc.msg

C3_ThenSleep ==
    (CycleOver /\ TransportFailure) =>
        /\ pc' = "poll"
        /\ timestamp' = trace[1].from_date
        /\ sent_messages' = at_poll.sent_messages

C3_TransportFailure == []C3_During /\ [][C3_ThenSleep]_vars

\* the error notification of a failed poll has itself failed to be delivered
C3_Witness ==
    /\ CycleOver
    /\ TransportFailure
    /\ Len(Sends("error")) = 1
    /\ ~Sends("error")[1].ok
    /\ at_poll.sent_messages # {}

-----------------------------------------------------------------------------
(* C4: after a cycle whose response is structurally valid the watermark is *)
(* that response's current_date when the next poll is made.                 *)

StructurallyValid(p) ==
    /\ p.py = "dict"
    /\ "homeworks" \in DOMAIN p.v
    /\ "current_date" \in DOMAIN p.v
    /\ p.v.homeworks.py = "list"

\* a record renders: it has a name and one of the three statuses
Renders(h) ==
    /\ "homework_name" \in DOMAIN h
    /\ "status" \in DOMAIN h
    /\ h.status \in {"approved", "reviewing", "rejected"}

AllRender(p) == \A i \in 1..Len(p.v.homeworks.v) : Renders(p.v.homeworks.v[i])

ValidCycleOver == CycleOver /\ GotPayload /\ StructurallyValid(Payload)

\* the claim as stated: whatever the records are
C4_Original ==
    ValidCycleOver => timestamp = Payload.v.current_date

\* amended: provided every record of the list renders
C4_Amended_Over ==
    (ValidCycleOver /\ AllRender(Payload)) => timestamp = Payload.v.current_date

C4_Amended_ThenSleep ==
    (ValidCycleOver /\ AllRender(Payload)) =>
        /\ pc' = "poll"
        /\ timestamp' = Payload.v.current_date

C4_WatermarkAdvances == []C4_Amended_Over /\ [][C4_Amended_ThenSleep]_vars

\* a batch of two rendering records moved the watermark
C4_Witness ==
    /\ ValidCycleOver
    /\ AllRender(Payload)
    /\ Len(Payload.v.homeworks.v) = 2
    /\ timestamp = Payload.v.current_date
    /\ timestamp # at_poll.timestamp

-----------------------------------------------------------------------------
(* C5: a decoded payload that fails validation gets exactly one error      *)
(* notification attempt with the program-failure text, and leaves           *)
(* timestamp and sent_messages as they were; then one sleep and a restart.  *)

InvalidPayload(p) == ~StructurallyValid(p)

ProgramFailureTexts ==
    {"Sboy v rabote programmy: " \o StrExc(check_response(p).exc) :
        p \in MalformedPayloads \cup {None}}

OneProgramFailureNotice ==
    /\ Sends("status") = <<>>
    /\ Len(Sends("error")) = 1
    /\ Sends("error")[1].text \in ProgramFailureTexts

Untouched ==
    /\ timestamp = at_poll.timestamp
    /\ sent_messages = at_poll.sent_messages

\* the claim as stated: for every payload that is no valid mapping, null included
C5_Original ==
    (CycleOver /\ GotPayload /\ InvalidPayload(Payload)) =>
        OneProgramFailureNotice /\ Untouched

\* amended: for every such payload but null; for null nothing is sent at all
C5_Amended_Over ==
    (CycleOver /\ GotPayload /\ InvalidPayload(Payload)) =>
        /\ Untouched
        /\ IF Payload = None
           THEN Len(trace) = 1
           ELSE OneProgramFailureNotice

C5_Amended_ThenSleep ==
    (CycleOver /\ GotPayload /\ InvalidPayload(Payload)) =>
        /\ pc' = "poll"
        /\ timestamp' = trace[1].from_date
        /\ sent_messages' = at_poll.sent_messages

C5_ValidationFailure == []C5_Amended_Over /\ [][C5_Amended_ThenSleep]_vars

\* the response lacked current_date and one error notification was attempted
C5_Witness ==
    /\ CycleOver
    /\ GotPayload
    /\ Payload = PyDict([homeworks |-> PyList(<<>>)])
    /\ OneProgramFailureNotice
    /\ at_poll.sent_messages # {}

-----------------------------------------------------------------------------
(* C6: once the loop has started it never ends: from every state of the    *)
(* loop, so after every kind of failure, a sleep is reached, the sleep      *)
(* leads to the top of the loop, and another API request is made.           *)

C6_LoopNeverEnds ==
    /\ [](LoopStarted => <>(pc = "sleep"))
    /\ [](pc = "sleep" => <>(pc = "poll" /\ trace = <<>>))
    /\ [](pc = "poll" => <>(trace # <<>>))

\* a record failed to render and the error notification for it was not
\* delivered either; the loop is about to sleep
C6_Witness ==
    /\ CycleOver
    /\ ValidCycleOver
    /\ ~AllRender(Payload)
    /\ Len(Sends("error")) = 1
    /\ ~Sends("error")[1].ok

-----------------------------------------------------------------------------
(* C7: every text in sent_messages has been delivered.                     *)

C7_SentWereDelivered == sent_messages \subseteq delivered

-----------------------------------------------------------------------------
(* C8: in a cycle with a well-formed response of N records that all render *)
(* the status notification attempts are exactly the distinct rendered texts *)
(* that were not in sent_messages when the cycle began: N of them when the  *)
(* texts differ and none was sent before, never more than N; and no error   *)
(* notification is attempted.                                               *)

BatchTexts == {parse_status(Payload.v.homeworks.v[i]).v : i \in 1..Len(Payload.v.homeworks.v)}
NewTexts == BatchTexts \ at_poll.sent_messages
StatusTextsSent == {Sends("status")[i].text : i \in 1..Len(Sends("status"))}

C8_NotificationsPerBatch ==
    (ValidCycleOver /\ AllRender(Payload)) =>
        LET N == Len(Payload.v.homeworks.v)
            n == Len(Sends("status"))
        IN  /\ n = Cardinality(NewTexts)
            /\ StatusTextsSent = NewTexts
            /\ n <= N
            /\ (Cardinality(BatchTexts) = N /\ BatchTexts \cap at_poll.sent_messages = {})
                    => n = N
            /\ Sends("error") = <<>>

\* two records with different texts, none sent before: two attempts
C8_Witness ==
    /\ ValidCycleOver
    /\ AllRender(Payload)
    /\ Len(Payload.v.homeworks.v) = 2
    /\ Cardinality(BatchTexts) = 2
    /\ at_poll.sent_messages = {}
    /\ Len(Sends("status")) = 2

-----------------------------------------------------------------------------
(* C9: a well-formed response with an empty homeworks list: no             *)
(* notification attempt of either kind, sent_messages as it was, the        *)
(* watermark set to current_date, one sleep.                                *)

EmptyBatchOver == ValidCycleOver /\ Payload.v.homeworks.v = <<>>

C9_Over ==
    EmptyBatchOver =>
        /\ Len(trace) = 1
        /\ sent_messages = at_poll.sent_messages
        /\ timestamp = Payload.v.current_date

C9_ThenSleep ==
    EmptyBatchOver =>
        /\ pc' = "poll"
        /\ timestamp' = Payload.v.current_date
        /\ sent_messages' = at_poll.sent_messages

C9_EmptyBatch == []C9_Over /\ [][C9_ThenSleep]_vars

\* an empty list moved the watermark while texts were already in the set
C9_Witness ==
    /\ EmptyBatchOver
    /\ timestamp # at_poll.timestamp
    /\ sent_messages # {}

-----------------------------------------------------------------------------
(* C10: a failed delivery stays inside send_message.  After a failed       *)
(* status delivery the batch goes on: when all records render, every new    *)
(* text is attempted, no error notification is made and the watermark is    *)
(* current_date.  A cycle never makes two error notifications, and no       *)
(* exception leaves main.                                                   *)

C10_DeliveryFailureSwallowed ==
    /\ Len(Sends("error")) <= 1
    /\ pc = "done" => trace = <<>>
    /\ (ValidCycleOver /\ AllRender(Payload)) =>
            /\ StatusTextsSent = NewTexts
            /\ Sends("error") = <<>>
            /\ timestamp = Payload.v.current_date

\* the first of two deliveries failed, the second was still attempted and
\* the watermark moved
C10_Witness ==
    /\ ValidCycleOver
    /\ AllRender(Payload)
    /\ Len(Sends("status")) = 2
    /\ ~Sends("status")[1].ok
    /\ Sends("error") = <<>>
    /\ timestamp = Payload.v.current_date
    /\ timestamp # at_poll.timestamp

-----------------------------------------------------------------------------
(* C11: a response whose status is not 200 gives the loop no payload and   *)
(* is classified as the kind of failure used for transport errors, which    *)
(* differs from the kind used for a 200 response with an undecodable body.  *)

NonOkResponse ==
    /\ trace # <<>>
    /\ trace[1].http.kind = "response"
    /\ trace[1].http.status_code # 200

\* the class get_api_answer raises when requests.get raises
TransportKind ==
    get_api_answer([kind |-> "raise",
                    exc |-> Exc("ConnectionError", "connection refused")]).exc.type

\* the classes it raises for a 200 response whose body does not decode
UndecodableKinds ==
    {get_api_answer(h).exc.type :
        h \in {x \in HttpOutcomes : x.kind = "response" /\ x.status_code = 200
                                     /\ ~x.json.ok}}

-----------------------------------------------------------------------------
(* C12: parse_status agrees with the reference renderer: for a record with *)
(* a name and one of the three statuses, the template sentence with that    *)
(* name and that status's verdict; for any other or no status, the          *)
(* unknown-status error; without a name, the missing-name error whatever    *)
(* the status.                                                              *)

ReferenceVerdict(status) ==
    CASE status = "approved" -> "Rabota proverena: revyueru vsyo ponravilos. Ura!"
      [] status = "reviewing" -> "Rabota vzyata na proverku revyuerom."
      [] status = "rejected" -> "Rabota proverena: u revyuera est zamechaniya."

\* the reference renderer: "message", text or "error", class
ReferenceRender(h) ==
    IF "homework_name" \notin DOMAIN h
    THEN <<"error", "KeyError">>
    ELSE IF "status" \in DOMAIN h /\ h.status \in {"approved", "reviewing", "rejected"}
    THEN <<"message", "Izmenilsya status proverki raboty \"" \o h.homework_name
                       \o "\". " \o ReferenceVerdict(h.status)>>
    ELSE <<"error", "ValueError">>

C12_ParseStatusAgrees ==
    (call.fn = "parse_status" /\ call.done) =>
        LET expected == ReferenceRender(call.arg)
        IN  IF expected[1] = "message"
            THEN call.ret.ok /\ call.ret.v = expected[2]
            ELSE ~call.ret.ok /\ call.ret.exc.type = expected[2]

\* a record with a rejected status and no name got the missing-name error
C12_Witness ==
    /\ call.fn = "parse_status"
    /\ call.done
    /\ call.arg = [status |-> "rejected"]
    /\ ~call.ret.ok
    /\ call.ret.exc.type = "KeyError"

-----------------------------------------------------------------------------
(* C13: check_response fails for a non-mapping, for a mapping without      *)
(* homeworks, for one without current_date, and for one whose homeworks is  *)
(* no list; for every other input it returns the homeworks list as it is.   *)

C13_CheckResponse ==
    (call.fn = "check_response" /\ call.done) =>
        LET p == call.arg
            fails == \/ p.py # "dict"
                     \/ "homeworks" \notin DOMAIN p.v
                     \/ "current_date" \notin DOMAIN p.v
                     \/ p.v.homeworks.py # "list"
        IN  IF fails
            THEN ~call.ret.ok
            ELSE /\ call.ret.ok
                 /\ call.ret.v.py = "list"
                 /\ call.ret.v.v = p.v.homeworks.v

\* a list of two different records came back in its order
C13_Witness ==
    /\ call.fn = "check_response"
    /\ call.done
    /\ call.ret.ok
    /\ Len(call.ret.v.v) = 2
    /\ call.ret.v.v[1] # call.ret.v.v[2]
    /\ call.ret.v.v = call.arg.v.homeworks.v

-----------------------------------------------------------------------------
(* C14: with a server whose current_date values never go down and are not  *)
(* below the loop's start time, the watermark never decreases, so every     *)
(* poll's from_date is at least that of every earlier poll, error cycles    *)
(* included.                                                                *)

C14_DuringCycle ==
    trace # <<>> =>
        /\ trace[1].from_date = at_poll.timestamp
        /\ timestamp >= trace[1].from_date

C14_Step == timestamp' >= timestamp

C14_WatermarkMonotone == []C14_DuringCycle /\ [][C14_Step]_vars

\* the watermark had moved from 0 to 1 and a later poll failed: it is still 1
C14_Witness ==
    /\ CycleOver
    /\ TransportFailure
    /\ timestamp = 1
    /\ server_date >= 1

-----------------------------------------------------------------------------
(* C15: when record k of a validated batch does not render, the cycle      *)
(* stops there: the new texts of the records before k have been attempted   *)
(* and are in sent_messages, nothing after k is rendered or notified, one   *)
(* error notification with the program-failure text is attempted, the       *)
(* watermark stays, and the next poll uses the same from_date.              *)

RenderFailureOver == ValidCycleOver /\ ~AllRender(Payload)

\* the first record that does not render
FirstBad ==
    CHOOSE k \in 1..Len(Payload.v.homeworks.v) :
        /\ ~Renders(Payload.v.homeworks.v[k])
        /\ \A j \in 1..(k - 1) : Renders(Payload.v.homeworks.v[j])

TextsBefore(k) == {parse_status(Payload.v.homeworks.v[j]).v : j \in 1..(k - 1)}

\* the text of the notification for a record that does not render
RenderFailureText(h) ==
    IF "homework_name" \notin DOMAIN h
    THEN "Sboy v rabote programmy: 'Otsutstvuet klyuch homework_name v otvete API.'"
    ELSE "Sboy v rabote programmy: Neozhidannyy status: "
            \o (IF "status" \in DOMAIN h THEN h.status ELSE "None")

C15_Over ==
    RenderFailureOver =>
        /\ idx = FirstBad
        /\ StatusTextsSent = TextsBefore(FirstBad) \ at_poll.sent_messages
        /\ Len(Sends("status")) = Cardinality(StatusTextsSent)
        /\ sent_messages = at_poll.sent_messages \cup TextsBefore(FirstBad)
        /\ Len(Sends("error")) = 1
        /\ Sends("error")[1].text = RenderFailureText(Payload.v.homeworks.v[FirstBad])
        /\ trace[Len(trace)].kind = "error"
        /\ timestamp = at_poll.timestamp

C15_ThenSleep ==
    RenderFailureOver =>
        /\ pc' = "poll"
        /\ timestamp' = trace[1].from_date

C15_RenderFailureAborts == []C15_Over /\ [][C15_ThenSleep]_vars

\* the first record was notified, the second had no name
C15_Witness ==
    /\ RenderFailureOver
    /\ FirstBad = 2
    /\ Len(Sends("status")) = 1
    /\ Len(Sends("error")) = 1
    /\ "homework_name" \notin DOMAIN Payload.v.homeworks.v[2]
    /\ Payload.v.current_date # timestamp

-----------------------------------------------------------------------------
(* C16: each cycle issues exactly one API request, and between two          *)
(* consecutive requests exactly one sleep of the retry period (600          *)
(* seconds) is made, whichever way the cycle went: success, empty list,     *)
(* null payload, API or request error, any other error.                     *)

RequestsOf(t) == SelectSeq(t, LAMBDA e : e.ev = "request")

\* the five ways a cycle can go, read from its request event
CyclePaths ==
    {"api or request error", "null payload", "other error", "empty list", "success"}
PathOfCycle ==
    IF ~trace[1].result.ok THEN "api or request error"
    ELSE IF Payload = None THEN "null payload"
    ELSE IF ~StructurallyValid(Payload) \/ ~AllRender(Payload) THEN "other error"
    ELSE IF Payload.v.homeworks.v = <<>> THEN "empty list"
    ELSE "success"

C16_InCycle ==
    /\ Len(RequestsOf(trace)) <= 1
    /\ trace # <<>> => trace[1].ev = "request"
    /\ pc \in {"notify", "except", "sleep"} =>
            /\ Len(RequestsOf(trace)) = 1
            /\ since_request = [made |-> TRUE, sleeps |-> <<>>]
            /\ PathOfCycle \in CyclePaths
    /\ pc = "poll" =>
            /\ trace = <<>>
            /\ since_request.made => since_request.sleeps = <<600>>

C16_Step ==
    \* a request is made at the top of the loop only, after one sleep
    /\ (trace = <<>> /\ trace' # <<>>) =>
            /\ pc = "poll"
            /\ since_request.made => since_request.sleeps = <<600>>
            /\ Len(RequestsOf(trace')) = 1
    \* the step at the top of the loop is the request
    /\ pc = "poll" => (trace' # <<>> /\ since_request' = [made |-> TRUE, sleeps |-> <<>>])
    \* the top of the loop is reached through the sleep only
    /\ (pc' = "poll" /\ pc # "start") =>
            /\ pc = "sleep"
            /\ since_request'.sleeps = <<600>>
    \* every way through the cycle ends in the sleep
    /\ pc = "sleep" => pc' = "poll"
    /\ (pc \in {"notify", "except"} /\ pc' # pc) => pc' = "sleep" \/ pc' = "except"

C16_OneSleepBetweenRequests == []C16_InCycle /\ [][C16_Step]_vars

\* about to poll again, one sleep after a cycle, with notifications made earlier
C16_Witness ==
    /\ pc = "poll"
    /\ since_request.made
    /\ since_request.sleeps = <<600>>
    /\ sent_messages # {}

-----------------------------------------------------------------------------
(* C17: sent_messages holds rendered status texts only, never the text of   *)
(* an error notification; every failing cycle makes one error notification  *)
(* attempt, also when the cycle before ended with the same text, so the     *)
(* number of identical error notifications in a run is not limited.         *)

CycleFailed == CycleOver /\ PathOfCycle \in {"api or request error", "other error"}

ErrorTextsSent == {Sends("error")[i].text : i \in 1..Len(Sends("error"))}

C17_Inv ==
    /\ sent_messages \subseteq StatusTexts
    /\ ErrorTextsSent \cap sent_messages = {}
    /\ ErrorTextsSent \cap StatusTexts = {}
    /\ last_error.text \notin sent_messages
    /\ CycleFailed =>
            /\ Len(Sends("error")) = 1
            /\ trace[Len(trace)] = Sends("error")[1]
    /\ (CycleOver /\ ~CycleFailed) => Sends("error") = <<>>

\* the error notification does not touch the set, and a cycle that ends
\* with the text of the cycle before adds one to the run of identical notices
C17_Step ==
    /\ pc = "except" =>
            /\ Len(trace') = Len(trace) + 1
            /\ trace'[Len(trace')].kind = "error"
            /\ sent_messages' = sent_messages
    /\ (CycleFailed /\ Sends("error")[1].text = last_error.text) =>
            /\ last_error'.text = last_error.text
            /\ last_error'.count >= last_error.count
            /\ last_error.count < MaxRepeats => last_error'.count = last_error.count + 1

C17_ErrorsBypassDeduplication == []C17_Inv /\ [][C17_Step]_vars

\* one more cycle ends with the error text that ended the MaxRepeats cycles
\* before it, and some status text is in the set
C17_Witness ==
    /\ CycleFailed
    /\ last_error.count = MaxRepeats
    /\ Sends("error")[1].text = last_error.text
    /\ sent_messages # {}

=============================================================================
